---- MODULE Spec2Model ----
(***************************************************************************)
(* The gdb introspection plugin of polymorphic_value (the two scripts      *)
(* polymorphic.gdb.py and polymorphic_value.gdb.py) and the build          *)
(* orchestration script scripts/build.py.                                  *)
(*                                                                         *)
(* Strings are sequences of lexemes: "isocpp_p0201::", "polymorphic",      *)
(* "_value", "<", ">", "Base".  No lexeme is a prefix of another one that  *)
(* can follow the same text, so matching lexeme by lexeme is matching      *)
(* character by character.                                                 *)
(***************************************************************************)
EXTENDS Integers, Sequences, FiniteSets, TLC

VARIABLES
    pretty_printers,  \* objfile.pretty_printers: families, in lookup order
    xmethods,         \* gdb.xmethods: families of the matchers, in lookup order
    enabled,          \* enabled[f][m]: XMethod.enabled of _method_dict[m] of family f
    class_type,       \* the type the debugger asks about: [has_tag, tag]
    asked,            \* the method name the evaluator asked a worker for
    found,            \* outcome of the last lookup
    obj,              \* the wrapper instance handed to the renderer / worker
    out,              \* outcome of the last call of to_string / a worker, with
                      \* the host operations it applied to the handle
    host,             \* how the host met an invalid address in that call
    pc,               \* scripts/build.py: position in main
    args,             \* scripts/build.py: parsed arguments and the environment
    cmake_invocation, \* scripts/build.py: the configure command line
    ran,              \* scripts/build.py: external steps run so far, with result
    exit_code         \* scripts/build.py: exit status of the process (-1: running)

vars == <<pretty_printers, xmethods, enabled, class_type, asked, found,
          obj, out, host,
          pc, args, cmake_invocation, ran, exit_code>>

gdbVars == <<pretty_printers, xmethods, enabled, class_type, asked, found,
            obj, out, host>>
buildVars == <<pc, args, cmake_invocation, ran, exit_code>>

----------------------------------------------------------------------------
\* Bounds of the model.

\* Longest text after the family head in the type names of LookupSpec.
MaxTail == 5
\* Longest text after the family head in the type names of Spec.
MaxParam == 2
\* Largest address of a pointee in the debuggee.
MaxAddr == 2

----------------------------------------------------------------------------
\* Type names.

Families == {"polymorphic", "polymorphic_value"}

NS == "isocpp_p0201::"

\* The family name as lexemes.
family_name(f) ==
    IF f = "polymorphic" THEN <<"polymorphic">> ELSE <<"polymorphic", "_value">>

Other(f) ==
    IF f = "polymorphic" THEN "polymorphic_value" ELSE "polymorphic"

TailLexemes == {"<", ">", "Base"}

RECURSIVE SeqsUpTo(_, _)
SeqsUpTo(S, n) ==
    IF n = 0 THEN {<<>>}
    ELSE LET shorter == SeqsUpTo(S, n - 1)
         IN  shorter \cup {Append(s, x) : s \in shorter, x \in S}

\* What a type name can start with: nothing, a family head, and near misses
\* (no "<" after the family name, no namespace, text before the namespace).
Heads ==
    { <<>>,
      <<NS, "polymorphic", "<">>,
      <<NS, "polymorphic", "_value", "<">>,
      <<NS, "polymorphic">>,
      <<"polymorphic", "_value", "<">>,
      <<"Base", NS, "polymorphic", "<">> }

TypeNames(n) == {h \o t : h \in Heads, t \in SeqsUpTo(TailLexemes, n)}

\* gdb.Type as the lookups see it: a tag, or no tag at all (Python None).
NoTag == [has_tag |-> FALSE, tag |-> <<>>]
Types(n) == {[has_tag |-> TRUE, tag |-> t] : t \in TypeNames(n)} \cup {NoTag}

----------------------------------------------------------------------------
\* re.match("^isocpp_p0201::<family><.*>$", s), by backtracking.

NoMatch == -1

\* The literal lexemes lit at position i of s.
Literal(lit, s, i) ==
    /\ i + Len(lit) - 1 <= Len(s)
    /\ \A k \in 1..Len(lit) : s[i + k - 1] = lit[k]

\* ">$" at position j of s.
GtEnd(s, j) == j = Len(s) /\ s[j] = ">"

\* ".*" from position i, greedy: it takes s[i..k] for the largest k the rest of
\* the pattern accepts. The result is k, or NoMatch.
RECURSIVE GreedyDotStar(_, _, _)
GreedyDotStar(s, i, k) ==
    IF k < i - 1 THEN NoMatch
    ELSE IF GtEnd(s, k + 1) THEN k
    ELSE GreedyDotStar(s, i, k - 1)

\* A matcher that stops ".*" at the first ">" ("[^>]*>$").
RECURSIVE FirstGt(_, _)
FirstGt(s, i) ==
    IF i > Len(s) THEN NoMatch
    ELSE IF s[i] = ">" THEN (IF i = Len(s) THEN i - 1 ELSE NoMatch)
    ELSE FirstGt(s, i + 1)

DotStarFirstGt(lit, s) ==
    IF ~Literal(lit, s, 1) THEN NoMatch ELSE FirstGt(s, Len(lit) + 1)

\* The pattern "^" lit ".*>$" on s: the last position of the ".*" span, or
\* NoMatch.
re_match(lit, s) ==
    IF ~Literal(lit, s, 1) THEN NoMatch
    ELSE GreedyDotStar(s, Len(lit) + 1, Len(s))

polymorphic_pattern == <<NS, "polymorphic", "<">>
polymorphic_value_pattern == <<NS, "polymorphic", "_value", "<">>

----------------------------------------------------------------------------
\* Lookup outcomes.

None(q) == [kind |-> "none", query |-> q]
Raise(q, e) == [kind |-> "raise", query |-> q, exc |-> e]
Renderer(f) == [kind |-> "renderer", query |-> "renderer", family |-> f]
Worker(f, m, c) ==
    [kind |-> "worker", query |-> "worker", family |-> f, method |-> m,
     worker_class |-> c]
Idle == [kind |-> "idle", query |-> "idle"]

Methods == {"operator->", "operator*"}
MethodNames == Methods \cup {"operator[]"}

\* _method_dict: method name -> worker class.
polymorphic_method_dict(m) ==
    IF m = "operator->" THEN "polymorphic_worker_get"
    ELSE "polymorphic_worker_dereference"

polymorphic_value_method_dict(m) ==
    IF m = "operator->" THEN "polymorphic_value_worker_get"
    ELSE "polymorphic_value_worker_dereference"

\* match() without the test of method.enabled.
polymorphic_match_ignoring_enabled(ct, method_name, en) ==
    IF ~ct.has_tag THEN Raise("worker", "TypeError")
    ELSE IF re_match(polymorphic_pattern, ct.tag) = NoMatch THEN None("worker")
    ELSE IF method_name \notin Methods THEN None("worker")
    ELSE Worker("polymorphic", method_name, polymorphic_method_dict(method_name))

\* match() whose pattern lost the "<": it accepts the sibling's names too.
polymorphic_match_shadowing(ct, method_name, en) ==
    IF ~ct.has_tag THEN Raise("worker", "TypeError")
    ELSE IF ~Literal(<<NS, "polymorphic">>, ct.tag, 1) THEN None("worker")
    ELSE IF method_name \notin Methods \/ ~en[method_name] THEN None("worker")
    ELSE Worker("polymorphic", method_name, polymorphic_method_dict(method_name))

\* polymorphic_matcher.match(class_type, method_name); en is the enabled flag
\* of each XMethod of its _method_dict. re.match(pattern, None) raises TypeError.
polymorphic_matcher_match(ct, method_name, en) ==
    IF ~ct.has_tag THEN Raise("worker", "TypeError")
    ELSE IF re_match(polymorphic_pattern, ct.tag) = NoMatch THEN None("worker")
    ELSE IF method_name \notin Methods \/ ~en[method_name] THEN None("worker")
    ELSE Worker("polymorphic", method_name, polymorphic_method_dict(method_name))

\* polymorphic_value_matcher.match(class_type, method_name).
polymorphic_value_matcher_match(ct, method_name, en) ==
    IF ~ct.has_tag THEN Raise("worker", "TypeError")
    ELSE IF re_match(polymorphic_value_pattern, ct.tag) = NoMatch THEN None("worker")
    ELSE IF method_name \notin Methods \/ ~en[method_name] THEN None("worker")
    ELSE Worker("polymorphic_value", method_name,
                polymorphic_value_method_dict(method_name))

matcher_match(f, ct, method_name, en) ==
    IF f = "polymorphic" THEN polymorphic_matcher_match(ct, method_name, en)
    ELSE polymorphic_value_matcher_match(ct, method_name, en)

\* The debugger asks each registered matcher in turn; the first exception
\* propagates, the first worker is the one it uses.
RECURSIVE find_worker(_, _, _, _)
find_worker(ms, ct, method_name, en) ==
    IF ms = <<>> THEN None("worker")
    ELSE LET r == matcher_match(Head(ms), ct, method_name, en[Head(ms)])
         IN  IF r.kind = "none" THEN find_worker(Tail(ms), ct, method_name, en)
             ELSE r

\* The sub-printer add_printer registers in build_pretty_printer of
\* polymorphic.gdb.py: the collection hands val to polymorphic_print when the
\* pattern is found in the type name, and declines a type without a name.
polymorphic_build_pretty_printer(ct) ==
    IF ~ct.has_tag THEN None("renderer")
    ELSE IF re_match(polymorphic_pattern, ct.tag) = NoMatch THEN None("renderer")
    ELSE Renderer("polymorphic")

\* build_pretty_printer of polymorphic_value.gdb.py.
polymorphic_value_build_pretty_printer(ct) ==
    IF ~ct.has_tag THEN None("renderer")
    ELSE IF re_match(polymorphic_value_pattern, ct.tag) = NoMatch
         THEN None("renderer")
    ELSE Renderer("polymorphic_value")

pretty_printer(f, ct) ==
    IF f = "polymorphic" THEN polymorphic_build_pretty_printer(ct)
    ELSE polymorphic_value_build_pretty_printer(ct)

\* The debugger asks each registered pretty printer in turn; first match wins.
RECURSIVE find_renderer(_, _)
find_renderer(pps, ct) ==
    IF pps = <<>> THEN None("renderer")
    ELSE LET r == pretty_printer(Head(pps), ct)
         IN  IF r.kind = "none" THEN find_renderer(Tail(pps), ct) ELSE r

----------------------------------------------------------------------------
\* The debuggee and the host's value API.

TypeIds == {"Base", "Derived"}
PointeeReprs == {"42", "7"}

\* Derived is a subclass of Base: a Base* may point to either.
SubtypesOf(t) == IF t = "Base" THEN {"Base", "Derived"} ELSE {"Derived"}

\* A wrapper instance val / obj, by its handle val["ptr_"]: the address held,
\* the declared pointee type, and what the debuggee holds at that address (the
\* runtime type of the object and how the host prints it). Address 0 is the
\* empty handle.
NullInstances ==
    {[address |-> 0, target |-> t, rtti |-> "", pointee |-> ""] : t \in TypeIds}

LiveInstances ==
    {[address |-> a, target |-> t, rtti |-> d, pointee |-> v] :
        a \in 1..MaxAddr, t \in TypeIds, d \in TypeIds, v \in PointeeReprs}

Instances ==
    NullInstances \cup {o \in LiveInstances : o.rtti \in SubtypesOf(o.target)}

NoObj == [address |-> -1, target |-> "", rtti |-> "", pointee |-> ""]

\* What the host does when an operation needs debuggee memory at an invalid
\* address: it raises gdb.MemoryError at once, or it goes on without reading
\* (a lazy value, the declared type).
HostModes == {"memory_error", "lazy"}

PointerTo(t) == [code |-> "ptr", target |-> t]
StructType(t) == [code |-> "struct", target |-> t]

\* str(gdb.Type).
str_type(ty) == IF ty.code = "ptr" THEN <<ty.target, " *">> ELSE <<ty.target>>

\* str(gdb.Value) of a pointer: the address.
str_ptr(o) == <<"0x", ToString(o.address)>>

\* val["ptr_"].type
ptr_type(o) == PointerTo(o.target)

\* val["ptr_"].dynamic_type: a pointer to the runtime type of the pointee. On
\* the empty handle the host cannot read the object: it raises, or falls back
\* to the declared type.
dynamic_type(o, h) ==
    IF o.address # 0 THEN [ok |-> TRUE, type |-> PointerTo(o.rtti)]
    ELSE IF h = "memory_error" THEN [ok |-> FALSE, type |-> PointerTo(o.target)]
    ELSE [ok |-> TRUE, type |-> PointerTo(o.target)]

\* val["ptr_"].dereference(): the value at the address held, with the declared
\* pointee type. On the empty handle the host raises, or returns a lazy value
\* at address 0 whose contents cannot be read.
dereference(o, h) ==
    IF o.address # 0
    THEN [ok |-> TRUE,
          value |-> [address |-> o.address, type |-> StructType(o.target),
                     repr |-> o.pointee, readable |-> TRUE]]
    ELSE [ok |-> h = "lazy",
          value |-> [address |-> 0, type |-> StructType(o.target),
                     repr |-> "", readable |-> FALSE]]

\* The handle itself as a value.
handle_value(o) ==
    [address |-> o.address, type |-> PointerTo(o.target),
     repr |-> "", readable |-> TRUE]

----------------------------------------------------------------------------
\* Outcomes of a call.

OutString(e, t, c) == [entry |-> e, kind |-> "string", text |-> t, calls |-> c]
OutType(e, t, c) == [entry |-> e, kind |-> "type", type |-> t, calls |-> c]
OutValue(e, v, c) == [entry |-> e, kind |-> "value", value |-> v, calls |-> c]
OutRaise(e, x, c) == [entry |-> e, kind |-> "raise", exc |-> x, calls |-> c]
NoOut == [entry |-> "", kind |-> "idle", calls |-> {}]

\* "(%s) %s" % (a, b)
format(a, b) == <<"(">> \o a \o <<") ">> \o b

\* to_string printing the pointee instead of the handle.
polymorphic_print_pointee(val, h) ==
    LET dt == dynamic_type(val, h)
        d  == dereference(val, h)
    IN  IF ~dt.ok \/ ~d.ok
        THEN OutRaise("to_string", "gdb.MemoryError", {"dynamic_type"})
        ELSE OutString("to_string",
                       format(<<dt.type.target>>, <<d.value.repr>>),
                       {"dynamic_type", "dereference"})

\* polymorphic_print.to_string(): the tuple is evaluated left to right.
polymorphic_print_to_string(val, h) ==
    LET dt == dynamic_type(val, h)
    IN  IF ~dt.ok THEN OutRaise("to_string", "gdb.MemoryError", {"dynamic_type"})
        ELSE OutString("to_string", format(str_type(dt.type), str_ptr(val)),
                       {"dynamic_type", "str"})

\* polymorphic_value_print.to_string().
polymorphic_value_print_to_string(val, h) ==
    LET dt == dynamic_type(val, h)
    IN  IF ~dt.ok THEN OutRaise("to_string", "gdb.MemoryError", {"dynamic_type"})
        ELSE OutString("to_string", format(str_type(dt.type), str_ptr(val)),
                       {"dynamic_type", "str"})

to_string(f, val, h) ==
    IF f = "polymorphic" THEN polymorphic_print_to_string(val, h)
    ELSE polymorphic_value_print_to_string(val, h)

\* polymorphic_worker_get.get_result_type(obj) and __call__(obj).
polymorphic_worker_get_get_result_type(o, h) ==
    OutType("get_result_type", ptr_type(o), {"type"})

polymorphic_worker_get_call(o, h) ==
    OutValue("__call__", handle_value(o), {})

\* polymorphic_value_worker_get.
polymorphic_value_worker_get_get_result_type(o, h) ==
    OutType("get_result_type", ptr_type(o), {"type"})

polymorphic_value_worker_get_call(o, h) ==
    OutValue("__call__", handle_value(o), {})

\* get_result_type reporting the runtime type of the pointee.
worker_dereference_dynamic_result_type(o, h) ==
    LET dt == dynamic_type(o, h)
    IN  IF ~dt.ok
        THEN OutRaise("get_result_type", "gdb.MemoryError", {"dynamic_type"})
        ELSE OutType("get_result_type", StructType(dt.type.target),
                     {"dynamic_type"})

\* polymorphic_worker_dereference.get_result_type(obj) and __call__(obj).
polymorphic_worker_dereference_get_result_type(o, h) ==
    LET d == dereference(o, h)
    IN  IF ~d.ok
        THEN OutRaise("get_result_type", "gdb.MemoryError", {"dereference"})
        ELSE OutType("get_result_type", d.value.type, {"dereference", "type"})

polymorphic_worker_dereference_call(o, h) ==
    LET d == dereference(o, h)
    IN  IF ~d.ok THEN OutRaise("__call__", "gdb.MemoryError", {"dereference"})
        ELSE OutValue("__call__", d.value, {"dereference"})

\* polymorphic_value_worker_dereference.
polymorphic_value_worker_dereference_get_result_type(o, h) ==
    LET d == dereference(o, h)
    IN  IF ~d.ok
        THEN OutRaise("get_result_type", "gdb.MemoryError", {"dereference"})
        ELSE OutType("get_result_type", d.value.type, {"dereference", "type"})

polymorphic_value_worker_dereference_call(o, h) ==
    LET d == dereference(o, h)
    IN  IF ~d.ok THEN OutRaise("__call__", "gdb.MemoryError", {"dereference"})
        ELSE OutValue("__call__", d.value, {"dereference"})

get_result_type(c, o, h) ==
    CASE c = "polymorphic_worker_get" ->
            polymorphic_worker_get_get_result_type(o, h)
      [] c = "polymorphic_value_worker_get" ->
            polymorphic_value_worker_get_get_result_type(o, h)
      [] c = "polymorphic_worker_dereference" ->
            polymorphic_worker_dereference_get_result_type(o, h)
      [] OTHER ->
            polymorphic_value_worker_dereference_get_result_type(o, h)

worker_call(c, o, h) ==
    CASE c = "polymorphic_worker_get" -> polymorphic_worker_get_call(o, h)
      [] c = "polymorphic_value_worker_get" ->
            polymorphic_value_worker_get_call(o, h)
      [] c = "polymorphic_worker_dereference" ->
            polymorphic_worker_dereference_call(o, h)
      [] OTHER -> polymorphic_value_worker_dereference_call(o, h)

----------------------------------------------------------------------------
\* The debugger session.

\* Both scripts are loaded, in either order; register_pretty_printer and
\* register_xmethod_matcher each insert at the front of the host's list.
LoadOrders == {<<"polymorphic", "polymorphic_value">>,
               <<"polymorphic_value", "polymorphic">>}

AllEnabled == [f \in Families |-> [m \in Methods |-> TRUE]]

BuildOff ==
    /\ pc = "off"
    /\ args = [clean |-> FALSE, run_tests |-> FALSE, verbose |-> FALSE,
               sanitizers |-> FALSE, windows |-> FALSE, win32 |-> FALSE]
    /\ cmake_invocation = <<>>
    /\ ran = <<>>
    /\ exit_code = -1

GdbInit(n) ==
    /\ \E o \in LoadOrders : pretty_printers = o /\ xmethods = o
    /\ enabled = AllEnabled
    /\ class_type \in Types(n)
    /\ asked = ""
    /\ found = Idle
    /\ obj = NoObj
    /\ out = NoOut
    /\ host = ""
    /\ BuildOff

Init == GdbInit(MaxParam)

LookupInit == GdbInit(MaxTail)

\* The user's "enable xmethod" / "disable xmethod" command sets the enabled
\* attribute match() reads; a new command begins, the last results are gone.
SetEnabled ==
    \E f \in Families, m \in Methods :
        /\ enabled' = [enabled EXCEPT ![f][m] = ~enabled[f][m]]
        /\ asked' = ""
        /\ found' = Idle
        /\ obj' = NoObj
        /\ out' = NoOut
        /\ host' = ""
        /\ UNCHANGED <<pretty_printers, xmethods, class_type>>
        /\ UNCHANGED buildVars

\* The debugger formats a value of class_type: it looks for a pretty printer.
FindRenderer ==
    /\ asked' = ""
    /\ found' = find_renderer(pretty_printers, class_type)
    /\ obj' = NoObj
    /\ out' = NoOut
    /\ host' = ""
    /\ UNCHANGED <<pretty_printers, xmethods, enabled, class_type>>
    /\ UNCHANGED buildVars

\* The evaluator meets `*x` or `x->` on a value of class_type: it looks for an
\* xmethod worker.
FindWorker ==
    \E m \in MethodNames :
        /\ asked' = m
        /\ found' = find_worker(xmethods, class_type, m, enabled)
        /\ obj' = NoObj
        /\ out' = NoOut
        /\ host' = ""
        /\ UNCHANGED <<pretty_printers, xmethods, enabled, class_type>>
        /\ UNCHANGED buildVars

\* The printer found is built on the value val and asked for its string.
PrintToString ==
    /\ found.kind = "renderer"
    /\ \E o \in Instances, h \in HostModes :
        /\ obj' = o
        /\ host' = h
        /\ out' = to_string(found.family, o, h)
    /\ UNCHANGED <<pretty_printers, xmethods, enabled, class_type, asked,
                   found>>
    /\ UNCHANGED buildVars

\* The evaluator asks the worker found for the type of its result on obj.
GetResultType ==
    /\ found.kind = "worker"
    /\ \E o \in Instances, h \in HostModes :
        /\ obj' = o
        /\ host' = h
        /\ out' = get_result_type(found.worker_class, o, h)
    /\ UNCHANGED <<pretty_printers, xmethods, enabled, class_type, asked,
                   found>>
    /\ UNCHANGED buildVars

\* The evaluator invokes the worker found on obj.
Call ==
    /\ found.kind = "worker"
    /\ \E o \in Instances, h \in HostModes :
        /\ obj' = o
        /\ host' = h
        /\ out' = worker_call(found.worker_class, o, h)
    /\ UNCHANGED <<pretty_printers, xmethods, enabled, class_type, asked,
                   found>>
    /\ UNCHANGED buildVars

LookupNext == SetEnabled \/ FindRenderer \/ FindWorker

Next == SetEnabled \/ FindRenderer \/ FindWorker \/ PrintToString \/ GetResultType \/ Call

Spec == Init /\ [][Next]_vars

LookupSpec == LookupInit /\ [][LookupNext]_vars

----------------------------------------------------------------------------
\* scripts/build.py, main(), from the parsed arguments on. Every external
\* process it starts is one step; its return code is the environment's choice.

ReturnCodes == {0, 1, 2}

\* The status of the Python process when an exception leaves main.
UncaughtExit == 1

GdbOff ==
    /\ pretty_printers = <<>>
    /\ xmethods = <<>>
    /\ enabled = AllEnabled
    /\ class_type = NoTag
    /\ asked = ""
    /\ found = Idle
    /\ obj = NoObj
    /\ out = NoOut
    /\ host = ""

\* parse_args: win32 exists only on Windows.
BuildInit ==
    /\ pc = "clean"
    /\ args \in [clean : BOOLEAN, run_tests : BOOLEAN, verbose : BOOLEAN,
                sanitizers : BOOLEAN, windows : BOOLEAN, win32 : BOOLEAN]
    /\ args.win32 => args.windows
    /\ cmake_invocation = <<>>
    /\ ran = <<>>
    /\ exit_code = -1
    /\ GdbOff

Step(name, rc) == [step |-> name, rc |-> rc]

\* subprocess.check_call(cmd): a non-zero return code raises
\* CalledProcessError, which nothing catches.
check_call(name, rc, next) ==
    /\ ran' = Append(ran, Step(name, rc))
    /\ IF rc = 0
       THEN pc' = next /\ exit_code' = exit_code
       ELSE pc' = "done" /\ exit_code' = UncaughtExit

\* subprocess.call in place of check_call: the return code is dropped.
call_ignoring_rc(name, rc, next) ==
    /\ ran' = Append(ran, Step(name, rc))
    /\ pc' = next
    /\ exit_code' = exit_code

\* if args.clean: check_call("rm -rf <out_dir>")
Clean ==
    /\ pc = "clean"
    /\ IF args.clean
       THEN \E rc \in ReturnCodes : check_call("clean", rc, "generator")
       ELSE pc' = "generator" /\ UNCHANGED <<ran, exit_code>>
    /\ UNCHANGED <<args, cmake_invocation>>
    /\ UNCHANGED gdbVars

BuildType == <<"-DCMAKE_BUILD_TYPE=">>

\* The command line of the configure step; ninja is the answer of
\* check_for_executable("ninja"), asked only off Windows.
CmakeInvocation(a, ninja) ==
    <<"cmake", ".", "-B">>
    \o (IF a.windows
        THEN (IF a.win32 THEN <<"-G", "Visual Studio 15 2017">>
              ELSE <<"-G", "Visual Studio 15 2017 Win64">>)
        ELSE (IF ninja THEN <<"-GNinja">> ELSE <<>>) \o BuildType \o BuildType)
    \o (IF a.verbose THEN <<"-DCMAKE_VERBOSE_MAKEFILE:BOOL=ON">> ELSE <<>>)
    \o (IF a.sanitizers THEN <<"-DENABLE_SANITIZERS:BOOL=ON">> ELSE <<>>)

\* Lines 66-82: the command line is put together. Off Windows this runs
\* "ninja --version"; check_for_executable swallows its failure.
Generator ==
    /\ pc = "generator"
    /\ IF args.windows
       THEN /\ cmake_invocation' = CmakeInvocation(args, FALSE)
            /\ ran' = ran
       ELSE \E rc \in ReturnCodes :
            /\ cmake_invocation' = CmakeInvocation(args, rc = 0)
            /\ ran' = Append(ran, Step("ninja --version", rc))
    /\ pc' = "configure"
    /\ UNCHANGED <<args, exit_code>>
    /\ UNCHANGED gdbVars

\* check_call(cmake_invocation)
Configure ==
    /\ pc = "configure"
    /\ \E rc \in ReturnCodes : check_call("configure", rc, "build")
    /\ UNCHANGED <<args, cmake_invocation>>
    /\ UNCHANGED gdbVars

\* The build step going on to the tests whatever cmake --build returned.
BuildIgnoringFailure ==
    /\ pc = "build"
    /\ \E rc \in ReturnCodes : call_ignoring_rc("build", rc, "test")
    /\ UNCHANGED <<args, cmake_invocation>>
    /\ UNCHANGED gdbVars

\* check_call("cmake --build ./<out_dir>")
Build ==
    /\ pc = "build"
    /\ \E rc \in ReturnCodes : check_call("build", rc, "test")
    /\ UNCHANGED <<args, cmake_invocation>>
    /\ UNCHANGED gdbVars

\* if args.run_tests: rc = call("ctest ..."); if rc != 0: sys.exit(1).
\* Falling off the end of main ends the process with status 0.
Test ==
    /\ pc = "test"
    /\ IF args.run_tests
       THEN \E rc \in ReturnCodes :
            /\ ran' = Append(ran, Step("test", rc))
            /\ exit_code' = IF rc # 0 THEN 1 ELSE 0
       ELSE ran' = ran /\ exit_code' = 0
    /\ pc' = "done"
    /\ UNCHANGED <<args, cmake_invocation>>
    /\ UNCHANGED gdbVars

BuildNext == Clean \/ Generator \/ Configure \/ Build \/ Test

BuildSpec == BuildInit /\ [][BuildNext]_vars

----------------------------------------------------------------------------
\* Properties.

\* The family pattern "<namespace>::<family-name><...>", stated on the text:
\* s is the namespace, the family name, "<", any text, and a closing ">".
NamesFamily(f, s) ==
    LET head == <<NS>> \o family_name(f) \o <<"<">>
    IN  /\ Len(s) >= Len(head) + 1
        /\ SubSeq(s, 1, Len(head)) = head
        /\ s[Len(s)] = ">"

\* The text between the family head and the closing ">".
Parameter(f, s) == SubSeq(s, Len(family_name(f)) + 3, Len(s) - 1)

\* The text ".*" took in the match of the pattern "^" lit ".*>$" on s.
DotStarSpan(lit, s) == SubSeq(s, Len(lit) + 1, re_match(lit, s))

pattern(f) ==
    IF f = "polymorphic" THEN polymorphic_pattern ELSE polymorphic_value_pattern

Supported == {"operator*", "operator->"}

WorkerClass(f, m) ==
    IF f = "polymorphic"
    THEN (IF m = "operator->" THEN "polymorphic_worker_get"
          ELSE "polymorphic_worker_dereference")
    ELSE (IF m = "operator->" THEN "polymorphic_value_worker_get"
          ELSE "polymorphic_value_worker_dereference")

\* The nesting depth of "<" and ">" after each lexeme of s stays at or above
\* 0 and ends at 0.
RECURSIVE BalancedFrom(_, _, _)
BalancedFrom(s, i, depth) ==
    IF depth < 0 THEN FALSE
    ELSE IF i > Len(s) THEN depth = 0
    ELSE BalancedFrom(s, i + 1,
                      IF s[i] = "<" THEN depth + 1
                      ELSE IF s[i] = ">" THEN depth - 1 ELSE depth)

Balanced(s) == BalancedFrom(s, 1, 0)

DereferenceWorkers ==
    {"polymorphic_worker_dereference", "polymorphic_value_worker_dereference"}

----------------------------------------------------------------------------
\* C1: both lookups are total: whatever the type, also one with no tag, the
\* lookup returns a renderer, a worker or none, and never raises.
C1_LookupsNeverRaise == found.kind # "raise"

----------------------------------------------------------------------------
\* C2 as stated: for a type name, find_worker returns a worker exactly when
\* the name matches the pattern of a family and the operation is operator* or
\* operator->, and none otherwise.
C2_WorkerIffMatchAndSupported ==
    (found.query = "worker" /\ class_type.has_tag) =>
        IF (\E f \in Families : NamesFamily(f, class_type.tag)) /\ asked \in Supported
        THEN found.kind = "worker"
        ELSE found.kind = "none"

\* C2 amended: for a type name, find_worker returns none when the name matches
\* no family pattern, when the operation is not one of the two, and when the
\* method of that family and operation is disabled; otherwise it returns the
\* worker of the family named and of the operation asked.
C2_WorkerIffMatchSupportedEnabled ==
    (found.query = "worker" /\ class_type.has_tag) =>
        /\ (\A f \in Families : ~NamesFamily(f, class_type.tag))
                => found.kind = "none"
        /\ asked \notin Supported => found.kind = "none"
        /\ \A f \in Families :
              (NamesFamily(f, class_type.tag) /\ asked \in Supported) =>
                  IF enabled[f][asked]
                  THEN found = [kind |-> "worker", query |-> "worker",
                                family |-> f, method |-> asked,
                                worker_class |-> WorkerClass(f, asked)]
                  ELSE found.kind = "none"

\* A matching name and a supported operation whose method is disabled: none.
C2_Witness ==
    /\ found.query = "worker"
    /\ class_type.has_tag
    /\ NamesFamily("polymorphic", class_type.tag)
    /\ asked = "operator*"
    /\ ~enabled["polymorphic"]["operator*"]
    /\ found.kind = "none"

----------------------------------------------------------------------------
\* C3 as stated: to_string on a non-empty instance returns "(D) V", D the
\* runtime type of the pointee and V the representation of the pointee.
C3_RendersTypeAndPointee ==
    (out.entry = "to_string" /\ obj.address >= 1) =>
        /\ out.kind = "string"
        /\ out.text = <<"(", obj.rtti, ") ", obj.pointee>>

\* C3 amended: to_string on a non-empty instance returns "(D *) H", D * the
\* dynamic type of the handle (the pointer to the runtime type D of the
\* pointee) and H the representation of the handle, that is the address held.
C3_RendersHandleTypeAndHandle ==
    (out.entry = "to_string" /\ obj.address >= 1) =>
        /\ out.kind = "string"
        /\ out.text = <<"(", obj.rtti, " *", ") ", "0x", ToString(obj.address)>>

C3_Witness ==
    /\ out.entry = "to_string"
    /\ obj.address >= 1
    /\ obj.target = "Base"
    /\ obj.rtti = "Derived"
    /\ obj.pointee = "42"
    /\ out.kind = "string"

----------------------------------------------------------------------------
\* The strings to_string gives for the non-empty instances.
NonEmptyTexts ==
    {to_string(f, o, h).text :
        f \in Families, o \in Instances \ NullInstances, h \in HostModes}

\* C4: to_string on an instance with an empty handle neither dereferences the
\* handle nor resolves its dynamic type, and returns a string no non-empty
\* instance is rendered as.
C4_EmptyHandleRendersEmpty ==
    (out.entry = "to_string" /\ obj.address = 0) =>
        /\ "dynamic_type" \notin out.calls
        /\ "dereference" \notin out.calls
        /\ out.kind = "string"
        /\ out.text \notin NonEmptyTexts

----------------------------------------------------------------------------
\* C5: get_result_type and __call__ of the dereference worker on an instance
\* with an empty handle signal an error to the evaluator (whatever its name),
\* apply no dereference to the handle and return nothing.
C5_EmptyHandleInvalidAccess ==
    (/\ out.entry \in {"get_result_type", "__call__"}
     /\ found.kind = "worker"
     /\ found.worker_class \in DereferenceWorkers
     /\ obj.address = 0) =>
        /\ out.kind = "raise"
        /\ "dereference" \notin out.calls

----------------------------------------------------------------------------
\* C6: on a non-empty instance the dereference worker returns the value at
\* the address the handle holds, and reports as result type the declared
\* pointee type of the handle, which is the type of that value, whatever the
\* runtime type of the pointee.
C6_DereferenceStaticType ==
    (/\ found.kind = "worker"
     /\ found.method = "operator*"
     /\ obj.address >= 1) =>
        /\ out.entry = "__call__" =>
              /\ out.kind = "value"
              /\ out.value = [address |-> obj.address,
                              type |-> [code |-> "struct", target |-> obj.target],
                              repr |-> obj.pointee, readable |-> TRUE]
        /\ out.entry = "get_result_type" =>
              /\ out.kind = "type"
              /\ out.type = [code |-> "struct", target |-> obj.target]

C6_Witness ==
    /\ found.kind = "worker"
    /\ found.method = "operator*"
    /\ out.entry = "get_result_type"
    /\ out.kind = "type"
    /\ obj.address >= 1
    /\ obj.target = "Base"
    /\ obj.rtti = "Derived"

----------------------------------------------------------------------------
\* C7: a type name of a family is recognized whatever its parameter, also one
\* that holds "<" and ">" itself, and the text the pattern's ".*" takes is the
\* whole parameter up to the final ">".
C7_WholeParameter ==
    (found.query # "idle" /\ class_type.has_tag) =>
        \A f \in Families :
            NamesFamily(f, class_type.tag) =>
                /\ DotStarSpan(pattern(f), class_type.tag)
                        = Parameter(f, class_type.tag)
                /\ found.query = "renderer" =>
                        found = [kind |-> "renderer", query |-> "renderer",
                                 family |-> f]
                /\ (found.query = "worker" /\ asked \in Supported
                        /\ enabled[f][asked]) =>
                        (found.kind = "worker" /\ found.family = f)

\* The parameter Base<Base> of polymorphic_value is recognized.
C7_Witness ==
    /\ found.kind = "renderer"
    /\ class_type.tag = <<NS, "polymorphic", "_value", "<",
                          "Base", "<", "Base", ">", ">">>

----------------------------------------------------------------------------
\* C8: a type name with the family head and a closing ">" whose parameter
\* has unbalanced "<" / ">" gets no renderer and no worker, and no exception.
C8_MalformedNotApplicable ==
    (found.query # "idle" /\ class_type.has_tag) =>
        \A f \in Families :
            (/\ NamesFamily(f, class_type.tag)
             /\ ~Balanced(Parameter(f, class_type.tag)))
                => found.kind = "none"

----------------------------------------------------------------------------
\* The type with the other family's name in place of the family name.
SwapFamily(ct) ==
    IF ~ct.has_tag THEN ct
    ELSE IF Literal(polymorphic_value_pattern, ct.tag, 1)
    THEN [ct EXCEPT !.tag = polymorphic_pattern
                \o SubSeq(ct.tag, Len(polymorphic_value_pattern) + 1, Len(ct.tag))]
    ELSE IF Literal(polymorphic_pattern, ct.tag, 1)
    THEN [ct EXCEPT !.tag = polymorphic_value_pattern
                \o SubSeq(ct.tag, Len(polymorphic_pattern) + 1, Len(ct.tag))]
    ELSE ct

\* A lookup outcome with the other family in place of the family.
RenameFamily(r) ==
    IF r.kind = "renderer" THEN [r EXCEPT !.family = Other(r.family)]
    ELSE IF r.kind = "worker"
    THEN [r EXCEPT !.family = Other(r.family),
                   !.worker_class = WorkerClass(Other(r.family), r.method)]
    ELSE r

SwapWorkerClass(c) ==
    CASE c = "polymorphic_worker_get" -> "polymorphic_value_worker_get"
      [] c = "polymorphic_value_worker_get" -> "polymorphic_worker_get"
      [] c = "polymorphic_worker_dereference" ->
            "polymorphic_value_worker_dereference"
      [] OTHER -> "polymorphic_worker_dereference"

\* The two families answer alike: the lookup on the swapped name gives the
\* same outcome for the other family, the other family's renderer and workers
\* give the same result on the same instance, and what is found is of the
\* family the name names and of no other.
FamiliesAlike ==
    /\ found.query = "renderer" =>
          found = RenameFamily(find_renderer(pretty_printers, SwapFamily(class_type)))
    /\ found.query = "worker" =>
          found = RenameFamily(find_worker(xmethods, SwapFamily(class_type),
                                           asked, enabled))
    /\ found.kind \in {"renderer", "worker"} =>
          /\ NamesFamily(found.family, class_type.tag)
          /\ ~NamesFamily(Other(found.family), class_type.tag)
    /\ out.entry = "to_string" =>
          out = to_string(Other(found.family), obj, host)
    /\ out.entry = "get_result_type" =>
          out = get_result_type(SwapWorkerClass(found.worker_class), obj, host)
    /\ out.entry = "__call__" =>
          out = worker_call(SwapWorkerClass(found.worker_class), obj, host)

\* C9 as stated: the two families behave identically on every type name,
\* operation name and instance, and each name is accepted by exactly the
\* family it names.
C9_FamiliesAlike == FamiliesAlike

\* C9 amended: the two families behave identically whenever each operation's
\* method has the same enabled flag in both families, and each name is
\* accepted by exactly the family it names.
C9_FamiliesAlikeWhenEnabledAlike ==
    (\A m \in Methods : enabled["polymorphic"][m] = enabled["polymorphic_value"][m])
        => FamiliesAlike

\* A worker of polymorphic_value called, with operator* disabled in both.
C9_Witness ==
    /\ found.kind = "worker"
    /\ found.family = "polymorphic_value"
    /\ out.entry = "__call__"
    /\ ~enabled["polymorphic"]["operator*"]
    /\ ~enabled["polymorphic_value"]["operator*"]

----------------------------------------------------------------------------
BuildSteps == <<"clean", "configure", "build", "test">>

Rank(name) == CHOOSE i \in 1..Len(BuildSteps) : BuildSteps[i] = name

\* The steps main ran, without the probe for ninja.
StepsRan == SelectSeq(ran, LAMBDA r : r.step # "ninja --version")

Ran(name) == \E i \in 1..Len(StepsRan) : StepsRan[i].step = name

\* C10: main exits with 0 exactly when every step it ran succeeded and with
\* non-zero when clean, configure, build or a test failed; the steps run in
\* the order clean, configure, build, test; no step runs after a failed one;
\* clean runs only with --clean and the tests only with --tests.
C10_BuildExitCode ==
    LET n == Len(StepsRan)
    IN  /\ \A i \in 1..n, j \in 1..n :
              i < j => Rank(StepsRan[i].step) < Rank(StepsRan[j].step)
        /\ \A i \in 1..n : i < n => StepsRan[i].rc = 0
        /\ Ran("test") => (args.run_tests /\ Ran("build"))
        /\ Ran("build") => Ran("configure")
        /\ Ran("clean") => args.clean
        /\ (pc = "done") = (exit_code # -1)
        /\ pc = "done" =>
              /\ exit_code = 0 <=> \A i \in 1..n : StepsRan[i].rc = 0
              /\ exit_code = 0 =>
                    /\ Ran("configure") /\ Ran("build")
                    /\ args.run_tests => Ran("test")
                    /\ args.clean => Ran("clean")

\* The tests ran and failed after every earlier step succeeded.
C10_Witness ==
    /\ pc = "done"
    /\ exit_code # 0
    /\ Len(StepsRan) = 4
    /\ StepsRan[4].step = "test"
    /\ StepsRan[4].rc # 0

====
